---- MODULE Spec2Model ----
(***************************************************************************)
(* A model of package tableprinter (tableprinter.go): the Printer, its     *)
(* lazily created tablewriter.Table and the Render / RenderRow / Print /   *)
(* PrintJSON / PrintHeadList operations.                                   *)
(*                                                                         *)
(* The table is the state the Printer drives through the tablewriter API;  *)
(* each API call made by tableprinter.go is one operator on that state.    *)
(* Slices are 1-based sequences here, column positions stay 0-based as in  *)
(* the Go code.                                                            *)
(***************************************************************************)
EXTENDS Integers, Sequences, FiniteSets, TLC

VARIABLES
    p,              \* the Printer's exported fields and its writer
    table,          \* p.table: NilTable or the tablewriter.Table
    newWriterCalls, \* how many times tablewriter.NewWriter has been called
    hdr,            \* the headers slice the caller passed to Render last (shared by reference)
    hdrOrig,        \* the labels the caller wrote into that slice
    fired,          \* Render calls on this slice for which the row-count policy fired
    inp,            \* the value, filters, list and label given to Print, PrintJSON, PrintHeadList
    last            \* the call just made: operation, arguments of Render, result

vars == <<p, table, newWriterCalls, hdr, hdrOrig, fired, inp, last>>

---------------------------------------------------------------------------
(* Bounds of the model *)

MaxRows == 4
MaxLines == 2
MaxFires == 2
MaxElems == 2
MaxFilters == 2

---------------------------------------------------------------------------
(* type Alignment and its constants *)

AlignDefault == 0
AlignCenter == 1
AlignRight == 2
AlignLeft == 3

Alignment == {AlignDefault, AlignCenter, AlignRight, AlignLeft}

(* A RowLengthTitle value: a nil func, or the predicate rowsLength > gt. *)
NilFunc == [nil |-> TRUE, gt |-> 0]
MoreThan(k) == [nil |-> FALSE, gt |-> k]

(* var Default *)
Default ==
    [ out               |-> "os.Stdout",
      AutoFormatHeaders |-> TRUE,
      AutoWrapText      |-> FALSE,
      BorderTop         |-> FALSE,
      BorderLeft        |-> FALSE,
      BorderRight       |-> FALSE,
      BorderBottom      |-> FALSE,
      HeaderLine        |-> TRUE,
      HeaderAlignment   |-> AlignLeft,
      RowLine           |-> FALSE,
      ColumnSeparator   |-> " ",
      NewLine           |-> "\n",
      CenterSeparator   |-> " ",
      DefaultAlignment  |-> AlignLeft,
      NumbersAlignment  |-> AlignRight,
      RowLengthTitle    |-> MoreThan(3),
      AllowRowsOnly     |-> TRUE ]

(* func New(w io.Writer) *Printer *)
New(w) ==
    [ out               |-> w,
      AutoFormatHeaders |-> Default.AutoFormatHeaders,
      AutoWrapText      |-> Default.AutoWrapText,
      BorderTop         |-> Default.BorderTop,
      BorderLeft        |-> Default.BorderLeft,
      BorderRight       |-> Default.BorderRight,
      BorderBottom      |-> Default.BorderBottom,
      HeaderLine        |-> Default.HeaderLine,
      HeaderAlignment   |-> Default.HeaderAlignment,
      RowLine           |-> Default.RowLine,
      ColumnSeparator   |-> Default.ColumnSeparator,
      NewLine           |-> Default.NewLine,
      CenterSeparator   |-> Default.CenterSeparator,
      DefaultAlignment  |-> Default.DefaultAlignment,
      NumbersAlignment  |-> Default.NumbersAlignment,
      RowLengthTitle    |-> Default.RowLengthTitle,
      AllowRowsOnly     |-> Default.AllowRowsOnly ]

---------------------------------------------------------------------------
(* The tablewriter.Table as tableprinter.go drives it *)
(* The library is outside this repository; the table records what the     *)
(* call sites hand to it: headers is the argument of the last SetHeader     *)
(* since ClearHeaders, lines the rows appended since ClearRows, and         *)
(* columnsAlign the argument of the last SetColumnAlignment.                *)

(* p.table == nil *)
NilTable ==
    [ isNil |-> TRUE, id |-> 0, out |-> "", align |-> AlignDefault,
      autoFmt |-> FALSE, autoWrap |-> FALSE,
      borders |-> [Top |-> FALSE, Left |-> FALSE, Right |-> FALSE, Bottom |-> FALSE],
      hdrLine |-> FALSE, hAlign |-> AlignDefault, rowLine |-> FALSE,
      pColumn |-> "", newLine |-> "", pCenter |-> "",
      headers |-> <<>>, lines |-> <<>>, columnsAlign |-> <<>> ]

(* The settings acquireTable copies from the Printer into a new table. *)
TableSettings(t) ==
    [ out |-> t.out, align |-> t.align, autoFmt |-> t.autoFmt, autoWrap |-> t.autoWrap,
      borders |-> t.borders, hdrLine |-> t.hdrLine, hAlign |-> t.hAlign,
      rowLine |-> t.rowLine, pColumn |-> t.pColumn, newLine |-> t.newLine,
      pCenter |-> t.pCenter ]

(* acquireTable without its nil check: a new table on every call *)
acquireTableAlways(pr, t, n) ==
    [ isNil |-> FALSE, id |-> n + 1,
      out |-> pr.out,
      align |-> pr.DefaultAlignment,
      autoFmt |-> pr.AutoFormatHeaders,
      autoWrap |-> pr.AutoWrapText,
      borders |-> [Top |-> pr.BorderTop, Left |-> pr.BorderLeft,
                   Right |-> pr.BorderRight, Bottom |-> pr.BorderBottom],
      hdrLine |-> pr.HeaderLine,
      hAlign |-> pr.HeaderAlignment,
      rowLine |-> pr.RowLine,
      pColumn |-> pr.ColumnSeparator,
      newLine |-> pr.NewLine,
      pCenter |-> pr.CenterSeparator,
      headers |-> <<>>, lines |-> <<>>, columnsAlign |-> <<>> ]

(* func (p *Printer) acquireTable(): the table, created and configured on   *)
(* the first call; n is the number of NewWriter calls made so far.          *)
acquireTable(pr, t, n) ==
    IF t.isNil
    THEN [ isNil |-> FALSE, id |-> n + 1,
           out |-> pr.out,
           align |-> pr.DefaultAlignment,
           autoFmt |-> pr.AutoFormatHeaders,
           autoWrap |-> pr.AutoWrapText,
           borders |-> [Top |-> pr.BorderTop, Left |-> pr.BorderLeft,
                        Right |-> pr.BorderRight, Bottom |-> pr.BorderBottom],
           hdrLine |-> pr.HeaderLine,
           hAlign |-> pr.HeaderAlignment,
           rowLine |-> pr.RowLine,
           pColumn |-> pr.ColumnSeparator,
           newLine |-> pr.NewLine,
           pCenter |-> pr.CenterSeparator,
           headers |-> <<>>, lines |-> <<>>, columnsAlign |-> <<>> ]
    ELSE t

(* table.ClearHeaders() *)
ClearHeaders(t) == [t EXCEPT !.headers = <<>>]

(* table.ClearRows() *)
ClearRows(t) == [t EXCEPT !.lines = <<>>]

(* table.SetHeader(headers) *)
SetHeader(t, headers) == [t EXCEPT !.headers = headers]

(* table.AppendBulk(rows) *)
AppendBulk(t, rows) == [t EXCEPT !.lines = t.lines \o rows]

(* table.SetColumnAlignment(keys) *)
SetColumnAlignment(t, keys) == [t EXCEPT !.columnsAlign = keys]

(* table.NumLines() *)
NumLines(t) == Len(t.lines)

(* fmt.Sprintf("%s (%d) ", label, n) *)
Sprintf(label, n) == label \o " (" \o ToString(n) \o ") "

(* the policy taken to hold from the threshold on, not above it *)
RowLengthTitleFiresAtThreshold(pr, n) ==
    /\ ~pr.RowLengthTitle.nil
    /\ n >= pr.RowLengthTitle.gt

(* p.RowLengthTitle != nil && p.RowLengthTitle(len(rows)) *)
RowLengthTitleFires(pr, n) ==
    /\ ~pr.RowLengthTitle.nil
    /\ n > pr.RowLengthTitle.gt

(* func (p *Printer) calculateColumnAlignment(numbersColsPosition, size) *)
calculateColumnAlignment(pr, numbersColsPosition, size) ==
    [ i \in 1..size |->
        IF \E k \in 1..Len(numbersColsPosition) : numbersColsPosition[k] = i - 1
        THEN pr.NumbersAlignment
        ELSE pr.DefaultAlignment ]

(* a reset that clears the headers and keeps the rows *)
ResetTableKeepsRows(t, reset) ==
    IF reset THEN ClearHeaders(t) ELSE t

(* The reset branch of Render. *)
ResetTable(t, reset) ==
    IF reset THEN ClearRows(ClearHeaders(t)) ELSE t

(* The headers slice after Render's row-count rewrite of headers[0]. *)
RewriteHeaders(pr, headers, rows) ==
    IF Len(headers) > 0 /\ RowLengthTitleFires(pr, Len(rows))
    THEN [headers EXCEPT ![1] = Sprintf(headers[1], Len(rows))]
    ELSE headers

(* the early return taken when rows-only output is allowed *)
NothingToDisplayFlagInverted(pr, headers) == Len(headers) = 0 /\ pr.AllowRowsOnly

(* Render's "else if !p.AllowRowsOnly { return 0 }": nothing to display *)
NothingToDisplay(pr, headers) == Len(headers) = 0 /\ ~pr.AllowRowsOnly

(* func (p *Printer) Render(headers, rows, numbersColsPosition, reset) int: *)
(* the table and the caller's headers slice after the call, the value      *)
(* returned and whether table.Render() was called.                         *)
RenderCall(pr, t, n, headers, rows, numbersColsPosition, reset) ==
    LET t1 == acquireTable(pr, t, n)
        t2 == ResetTable(t1, reset)
        h2 == RewriteHeaders(pr, headers, rows)
    IN  IF NothingToDisplay(pr, headers)
        THEN [table |-> t2, headers |-> headers, ret |-> 0, drew |-> "nothing"]
        ELSE LET t3 == IF Len(headers) > 0 THEN SetHeader(t2, h2) ELSE t2
                 t4 == AppendBulk(t3, rows)
                 t5 == SetColumnAlignment(t4,
                          calculateColumnAlignment(pr, numbersColsPosition, Len(headers)))
             IN  [table |-> t5, headers |-> h2, ret |-> NumLines(t5), drew |-> "table"]

(* table.RenderRowOnce(row): appends the row and draws it. *)
RenderRowOnce(t, row) == [t EXCEPT !.lines = Append(t.lines, row)]

(* RenderRow leaving the column alignment as the last Render set it *)
RenderRowCallKeepsAlignment(pr, t, n, row, numbersColsPosition) ==
    LET t1 == acquireTable(pr, t, n)
        t3 == RenderRowOnce(t1, row)
    IN  [table |-> t3, ret |-> NumLines(t3), drew |-> "row"]

(* func (p *Printer) RenderRow(row, numbersColsPosition) int *)
RenderRowCall(pr, t, n, row, numbersColsPosition) ==
    LET t1 == acquireTable(pr, t, n)
        t2 == SetColumnAlignment(t1,
                 calculateColumnAlignment(pr, numbersColsPosition, Len(row)))
        t3 == RenderRowOnce(t2, row)
    IN  [table |-> t3, ret |-> NumLines(t3), drew |-> "row"]

---------------------------------------------------------------------------
(* The print pipeline: indirectValue, MakeFilters, the parsers' Parse and   *)
(* extractCells, as the specification describes them.                      *)

(* indirectValue(reflect.ValueOf(in)): strips the pointers *)
indirectValue(v) == [v EXCEPT !.ptr = FALSE]

(* one predicate applied to an element of the shape it accepts *)
Verdict(pred, e) == e.key \in pred.accept

(* the predicates from the k-th on, tried in registration order *)
RECURSIVE FirstMatch(_, _, _)
FirstMatch(filters, e, k) ==
    IF k > Len(filters) THEN TRUE
    ELSE IF filters[k].shape = e.shape THEN Verdict(filters[k], e)
    ELSE FirstMatch(filters, e, k + 1)

(* MakeFilters(v, filters...): the combined visibility function *)
MakeFilters(filters, e) == FirstMatch(filters, e, 1)

(* the Header List of a shape, and the numeric positions among its columns *)
ShapeHeaders(shape) ==
    CASE shape = "A" -> <<"Name", "Age">>
      [] shape = "B" -> <<"Item", "Tag">>
      [] shape = "M" -> <<"name", "age">>
      [] OTHER -> <<>>

ShapeNumbers(shape) ==
    CASE shape = "A" -> <<1>>
      [] shape = "M" -> <<1>>
      [] OTHER -> <<>>

(* the Row of one element *)
ElementCells(e) ==
    IF e.shape = "B" THEN <<e.key, "#" \o ToString(e.n)>>
    ELSE <<e.key, ToString(e.n)>>

(* the elements the combined filter lets through, in input order *)
RECURSIVE Surviving(_, _)
Surviving(items, filters) ==
    IF items = <<>> THEN <<>>
    ELSE LET rest == Surviving(Tail(items), filters)
         IN  IF MakeFilters(filters, Head(items)) THEN <<Head(items)>> \o rest ELSE rest

RECURSIVE Flatten(_)
Flatten(ss) == IF ss = <<>> THEN <<>> ELSE Head(ss) \o Flatten(Tail(ss))

(* whichParser(v.Type()).Parse(v, f) and JSONParser.Parse(v, f) *)
Parse(v, filters) ==
    LET kept == Surviving(v.items, filters)
        shape == IF kept # <<>> THEN kept[1].shape ELSE v.type
    IN  [ headers |-> ShapeHeaders(shape),
          rows    |-> [i \in 1..Len(kept) |-> ElementCells(kept[i])],
          nums    |-> Flatten([i \in 1..Len(kept) |-> ShapeNumbers(kept[i].shape)]) ]

(* extractCells(i, emptyHeader, item, true): the numeric positions and the row of one list item *)
extractCells(i, item) ==
    IF item.kind = "int"
    THEN [c |-> <<0>>, r |-> <<ToString(item.n)>>]
    ELSE [c |-> <<>>, r |-> <<item.s>>]

---------------------------------------------------------------------------
(* Print, PrintJSON, PrintHeadList *)

(* Print handing no filter to the parser *)
PrintCallUnfiltered(pr, t, n, in, filters) ==
    LET v == indirectValue(in)
        parsed == Parse(v, <<>>)
    IN  [ args |-> parsed,
          res  |-> RenderCall(pr, t, n, parsed.headers, parsed.rows, parsed.nums, TRUE) ]

(* func (p *Printer) Print(in, filters...) int *)
PrintCall(pr, t, n, in, filters) ==
    LET v == indirectValue(in)
        parsed == Parse(v, filters)
    IN  [ args |-> parsed,
          res  |-> RenderCall(pr, t, n, parsed.headers, parsed.rows, parsed.nums, TRUE) ]

(* func (p *Printer) PrintJSON(in, filters...) int *)
PrintJSONCall(pr, t, n, in, filters) ==
    LET v == indirectValue(in)
        parsed == Parse(v, filters)
    IN  [ args |-> parsed,
          res  |-> RenderCall(pr, t, n, parsed.headers, parsed.rows, parsed.nums, TRUE) ]

(* PrintHeadList without the check that the list is a slice *)
PrintHeadListCallAnyKind(pr, t, n, list, header, filters) ==
    LET items == indirectValue(list)
        cells == [i \in 1..Len(items.items) |-> extractCells(i - 1, items.items[i])]
        rows == [i \in 1..Len(cells) |-> cells[i].r]
        numbersColsPosition == Flatten([i \in 1..Len(cells) |-> cells[i].c])
        headers == <<header>>
    IN  [ called |-> TRUE,
          args |-> [headers |-> headers, rows |-> rows, nums |-> numbersColsPosition],
          res |-> RenderCall(pr, t, n, headers, rows, numbersColsPosition, TRUE) ]

(* func (p *Printer) PrintHeadList(list, header, filters...) int *)
PrintHeadListCall(pr, t, n, list, header, filters) ==
    LET items == indirectValue(list)
        cells == [i \in 1..Len(items.items) |-> extractCells(i - 1, items.items[i])]
        rows == [i \in 1..Len(cells) |-> cells[i].r]
        numbersColsPosition == Flatten([i \in 1..Len(cells) |-> cells[i].c])
        headers == <<header>>
    IN  IF items.kind # "slice"
        THEN [ called |-> FALSE,
               args |-> [headers |-> <<>>, rows |-> <<>>, nums |-> <<>>],
               res |-> [table |-> t, headers |-> <<>>, ret |-> 0, drew |-> "nothing"] ]
        ELSE [ called |-> TRUE,
               args |-> [headers |-> headers, rows |-> rows, nums |-> numbersColsPosition],
               res |-> RenderCall(pr, t, n, headers, rows, numbersColsPosition, TRUE) ]

---------------------------------------------------------------------------
(* Inputs *)

Labels == <<"Name", "Age">>

(* a headers slice: none, or one label per column *)
HeadersInputs == {<<>>, Labels}

Cell(i, j) == ToString(i) \o "." \o ToString(j)

(* n rows of w cells each *)
Rows(n, w) == [i \in 1..n |-> [j \in 1..w |-> Cell(i, j)]]

(* rows as wide as the headers; as wide as Labels when there are none *)
RowsInputs(headers) ==
    {Rows(n, IF Len(headers) > 0 THEN Len(headers) ELSE Len(Labels)) : n \in 0..MaxRows}

(* a single row for RenderRow *)
RowInputs == {[j \in 1..w |-> Cell(0, j)] : w \in 1..Len(Labels)}

(* numeric-position lists: none; duplicated, unordered and with one past the columns *)
NumsInputs == {<<>>, <<2, 0, 0>>}

(* a Printer as its caller may configure it before the first render call *)
Printers ==
    { New("w"),
      [New("w") EXCEPT !.AllowRowsOnly = FALSE, !.RowLengthTitle = NilFunc] }

(* a Printer with one field changed from what New gives *)
Reconfigured ==
    LET d == New("w")
    IN  { [d EXCEPT !.out = "w2"],
          [d EXCEPT !.AutoFormatHeaders = FALSE],
          [d EXCEPT !.AutoWrapText = TRUE],
          [d EXCEPT !.BorderTop = TRUE],
          [d EXCEPT !.BorderLeft = TRUE],
          [d EXCEPT !.BorderRight = TRUE],
          [d EXCEPT !.BorderBottom = TRUE],
          [d EXCEPT !.HeaderLine = FALSE],
          [d EXCEPT !.HeaderAlignment = AlignCenter],
          [d EXCEPT !.RowLine = TRUE],
          [d EXCEPT !.ColumnSeparator = "|"],
          [d EXCEPT !.NewLine = "\r\n"],
          [d EXCEPT !.CenterSeparator = "+"],
          [d EXCEPT !.DefaultAlignment = AlignCenter],
          [d EXCEPT !.NumbersAlignment = AlignLeft],
          [d EXCEPT !.RowLengthTitle = NilFunc],
          [d EXCEPT !.AllowRowsOnly = FALSE] }

RECURSIVE SeqsUpTo(_, _)
SeqsUpTo(S, n) ==
    IF n = 0 THEN {<<>>}
    ELSE LET shorter == SeqsUpTo(S, n - 1)
         IN  shorter \cup {Append(s, x) : s \in {q \in shorter : Len(q) = n - 1}, x \in S}

Elem(shape, key, n) == [shape |-> shape, key |-> key, n |-> n]

(* the elements a collection of a declared element type may hold *)
ElemsOf(type) ==
    CASE type = "A" -> {Elem("A", "a", 3), Elem("A", "b", 30)}
      [] type = "B" -> {Elem("B", "x", 1)}
      [] type = "M" -> {Elem("M", "m", 7), Elem("M", "k", 0)}
      [] OTHER -> {Elem("A", "a", 3), Elem("B", "x", 1)}

Collection(type, items) == [ptr |-> FALSE, type |-> type, items |-> items]

Collections(types) ==
    UNION {{Collection(type, s) : s \in SeqsUpTo(ElemsOf(type), MaxElems)} : type \in types}

(* a predicate: the shape it accepts and the keys it answers true for *)
Pred(shape, accept) == [shape |-> shape, accept |-> accept]

Preds ==
    { Pred("A", {}), Pred("A", {"a", "b"}), Pred("A", {"a"}),
      Pred("B", {}), Pred("M", {"m"}) }

FiltersInputs == SeqsUpTo(Preds, MaxFilters)

Item(kind, s, n) == [kind |-> kind, s |-> s, n |-> n]

Items == {Item("string", "x", 0), Item("int", "", 7)}

NotASlice == [ptr |-> FALSE, kind |-> "string", items |-> <<>>]

ListInputs ==
    {[ptr |-> b, kind |-> "slice", items |-> s] : b \in BOOLEAN, s \in SeqsUpTo(Items, MaxElems)}
        \cup {NotASlice, [NotASlice EXCEPT !.ptr = TRUE]}

NoInput ==
    [ v |-> Collection("any", <<>>), doc |-> Collection("M", <<>>), filters |-> <<>>,
      list |-> NotASlice, header |-> "" ]

(* what a caller may hand to Print, to PrintJSON or to PrintHeadList *)
PrintInputs ==
    {[NoInput EXCEPT !.v = v, !.filters = f] :
        v \in Collections({"A", "B", "any"}), f \in FiltersInputs}
    \cup
    {[NoInput EXCEPT !.doc = v, !.filters = f] :
        v \in Collections({"M"}), f \in FiltersInputs}
    \cup
    {[NoInput EXCEPT !.list = l, !.header = "Item", !.filters = f] :
        l \in ListInputs, f \in FiltersInputs}

(* one value of each kind, for the call sequences that mix Print with Render *)
SampleInput ==
    [ v |-> Collection("A", <<Elem("A", "a", 3), Elem("A", "b", 30)>>),
      doc |-> Collection("M", <<Elem("M", "m", 7)>>),
      filters |-> <<Pred("A", {"a"})>>,
      list |-> [ptr |-> TRUE, kind |-> "slice",
                items |-> <<Item("string", "x", 0), Item("int", "", 7)>>],
      header |-> "Item" ]

NoCall ==
    [ op |-> "none", rendered |-> FALSE, headers |-> <<>>, rows |-> <<>>, nums |-> <<>>,
      reset |-> FALSE, ret |-> 0, drew |-> "nothing" ]

(* the record of a call that reached Printer.Render *)
Rendered(op, headers, rows, nums, reset, r) ==
    [ op |-> op, rendered |-> TRUE, headers |-> headers, rows |-> rows, nums |-> nums,
      reset |-> reset, ret |-> r.ret, drew |-> r.drew ]

---------------------------------------------------------------------------
(* The state machine *)

Init ==
    /\ p \in Printers
    /\ table = NilTable
    /\ newWriterCalls = 0
    /\ hdr = <<>>
    /\ hdrOrig = <<>>
    /\ fired = 0
    /\ inp = SampleInput
    /\ last = NoCall

(* The caller sets the Printer's fields to those of q. *)
Configure(q) ==
    /\ q # p
    /\ p' = q
    /\ last' = [NoCall EXCEPT !.op = "Configure"]
    /\ UNCHANGED <<table, newWriterCalls, hdr, hdrOrig, fired, inp>>

(* p.Render(headers, rows, nums, reset): headers is the slice the caller   *)
(* passed to its previous Render call, or a newly allocated one.           *)
Render(headers, rows, nums, reset) ==
    LET r == RenderCall(p, table, newWriterCalls, headers, rows, nums, reset)
        f == Len(headers) > 0 /\ RowLengthTitleFires(p, Len(rows))
        before == IF headers = hdr THEN fired ELSE 0
    IN  /\ reset \/ Len(r.table.lines) <= MaxLines
        /\ f => before < MaxFires
        /\ table' = r.table
        /\ newWriterCalls' = r.table.id
        /\ hdr' = r.headers
        /\ hdrOrig' = IF headers = hdr THEN hdrOrig ELSE headers
        /\ fired' = IF f THEN before + 1 ELSE before
        /\ last' = Rendered("Render", headers, rows, nums, reset, r)
        /\ UNCHANGED <<p, inp>>

(* p.RenderRow(row, nums) *)
RenderRow(row, nums) ==
    LET r == RenderRowCall(p, table, newWriterCalls, row, nums)
    IN  /\ Len(table.lines) < MaxLines
        /\ table' = r.table
        /\ newWriterCalls' = r.table.id
        /\ last' = [NoCall EXCEPT !.op = "RenderRow", !.rows = <<row>>, !.nums = nums,
                                  !.ret = r.ret, !.drew = r.drew]
        /\ UNCHANGED <<p, hdr, hdrOrig, fired, inp>>

(* p.Print(v, filters...) *)
PrintValue(v, filters) ==
    LET r == PrintCall(p, table, newWriterCalls, v, filters)
    IN  /\ table' = r.res.table
        /\ newWriterCalls' = r.res.table.id
        /\ last' = Rendered("Print", r.args.headers, r.args.rows, r.args.nums, TRUE, r.res)
        /\ UNCHANGED <<p, hdr, hdrOrig, fired, inp>>

(* p.PrintJSON(v, filters...) *)
PrintJSON(v, filters) ==
    LET r == PrintJSONCall(p, table, newWriterCalls, v, filters)
    IN  /\ table' = r.res.table
        /\ newWriterCalls' = r.res.table.id
        /\ last' = Rendered("PrintJSON", r.args.headers, r.args.rows, r.args.nums, TRUE, r.res)
        /\ UNCHANGED <<p, hdr, hdrOrig, fired, inp>>

(* p.PrintHeadList(list, header, filters...) *)
PrintHeadList(list, header, filters) ==
    LET r == PrintHeadListCall(p, table, newWriterCalls, list, header, filters)
    IN  /\ table' = r.res.table
        /\ newWriterCalls' = r.res.table.id
        /\ last' = IF r.called
                   THEN Rendered("PrintHeadList", r.args.headers, r.args.rows, r.args.nums,
                                 TRUE, r.res)
                   ELSE [NoCall EXCEPT !.op = "PrintHeadList"]
        /\ UNCHANGED <<p, hdr, hdrOrig, fired, inp>>

(* One Printer used from a single call sequence. *)
Next ==
    \/ \E headers \in {hdr} \cup HeadersInputs, nums \in NumsInputs, reset \in BOOLEAN :
          \E rows \in RowsInputs(headers) : Render(headers, rows, nums, reset)
    \/ \E row \in RowInputs, nums \in NumsInputs : RenderRow(row, nums)
    \/ PrintValue(inp.v, inp.filters)
    \/ PrintJSON(inp.doc, inp.filters)
    \/ PrintHeadList(inp.list, inp.header, inp.filters)

Spec == Init /\ [][Next]_vars

(* The print pipeline applied to every input a caller may hold. *)
InitPrint ==
    /\ p \in {New("w"), [New("w") EXCEPT !.AllowRowsOnly = FALSE]}
    /\ table = NilTable
    /\ newWriterCalls = 0
    /\ hdr = <<>>
    /\ hdrOrig = <<>>
    /\ fired = 0
    /\ inp \in PrintInputs
    /\ last = NoCall

NextPrint ==
    \/ PrintValue(inp.v, inp.filters)
    \/ PrintJSON(inp.doc, inp.filters)
    \/ PrintHeadList(inp.list, inp.header, inp.filters)

SpecPrint == InitPrint /\ [][NextPrint]_vars

(* A Printer whose fields the caller keeps changing between the calls. *)
InitConfigure ==
    /\ p = New("w")
    /\ table = NilTable
    /\ newWriterCalls = 0
    /\ hdr = <<>>
    /\ hdrOrig = <<>>
    /\ fired = 0
    /\ inp = SampleInput
    /\ last = NoCall

NextConfigure ==
    \/ \E q \in Reconfigured \cup {New("w")} : Configure(q)
    \/ Render(Labels, Rows(1, Len(Labels)), <<1>>, TRUE)
    \/ RenderRow(<<Cell(0, 1), Cell(0, 2)>>, <<>>)
    \/ PrintValue(inp.v, inp.filters)
    \/ PrintJSON(inp.doc, inp.filters)
    \/ PrintHeadList(inp.list, inp.header, inp.filters)

SpecConfigure == InitConfigure /\ [][NextConfigure]_vars

---------------------------------------------------------------------------
(* Properties *)

(* the positions a numeric-position list names *)
PositionSet(nums) == {nums[k] : k \in DOMAIN nums}

(* the label with the row count embedded: label, " (N) " *)
WithCount(label, n) == label \o " (" \o ToString(n) \o ") "

(* C1: Render with no headers on a Printer whose AllowRowsOnly is false     *)
(* returns 0, draws nothing and appends none of the given rows, whatever    *)
(* the rows, the numeric positions and reset; with AllowRowsOnly true the   *)
(* same call appends the rows and draws.                                    *)
C1_NothingToPrint ==
    [][ (last'.rendered /\ last'.headers = <<>>) =>
           LET kept == IF last'.reset THEN <<>> ELSE table.lines
           IN  IF p.AllowRowsOnly
               THEN /\ last'.drew = "table"
                    /\ table'.lines = kept \o last'.rows
               ELSE /\ last'.ret = 0
                    /\ last'.drew = "nothing"
                    /\ table'.lines = kept ]_vars

C1_Witness ==
    /\ last.op = "Render"
    /\ last.headers = <<>>
    /\ ~p.AllowRowsOnly
    /\ last.rows # <<>>
    /\ last.ret = 0
    /\ table.lines # <<>>

(* C2: a Render with reset=true that does not short-circuit leaves the      *)
(* table holding exactly the given rows and returns their number, whatever  *)
(* calls came before; Print, PrintJSON and PrintHeadList always render      *)
(* with reset=true.                                                         *)
C2_ResetIndependent ==
    /\ (last.rendered /\ last.reset /\ (last.headers # <<>> \/ p.AllowRowsOnly)) =>
          /\ table.lines = last.rows
          /\ last.ret = Len(last.rows)
    /\ (last.rendered /\ last.op \in {"Print", "PrintJSON", "PrintHeadList"}) => last.reset

C2_Witness ==
    /\ last.op = "Render"
    /\ last.reset
    /\ fired = 2
    /\ last.rows # <<>>
    /\ table.lines = last.rows
    /\ last.ret = Len(last.rows)

(* C3: with headers given, the first label set on the table is the given    *)
(* first label followed by " (N) ", N the number of rows, when the          *)
(* RowLengthTitle policy is non-nil and holds of N, and the given label     *)
(* otherwise; the other labels and the rows are the given ones. Under the   *)
(* default policy 2 and 3 rows keep the label and 4 rows get the suffix.    *)
C3_RowCountHeader ==
    (last.rendered /\ last.headers # <<>>) =>
        LET n == Len(last.rows)
            m == Len(table.lines)
            holds == ~p.RowLengthTitle.nil /\ p.RowLengthTitle.gt < n
        IN  /\ Len(table.headers) = Len(last.headers)
            /\ \A i \in 2..Len(last.headers) : table.headers[i] = last.headers[i]
            /\ table.headers[1] =
                  IF holds THEN WithCount(last.headers[1], n) ELSE last.headers[1]
            /\ m >= n
            /\ SubSeq(table.lines, m - n + 1, m) = last.rows
            /\ (p.RowLengthTitle = Default.RowLengthTitle) =>
                  /\ n \in {2, 3} => table.headers[1] = last.headers[1]
                  /\ n = 4 => table.headers[1] = last.headers[1] \o " (4) "

C3_Witness ==
    /\ last.op = "Render"
    /\ p.RowLengthTitle = Default.RowLengthTitle
    /\ last.headers = <<"Name", "Age">>
    /\ Len(last.rows) = 4
    /\ table.headers = <<"Name (4) ", "Age">>

(* C4: after a Render that draws, every column of the headers and of the    *)
(* rendered rows has NumbersAlignment if its index is among the numeric     *)
(* positions and DefaultAlignment otherwise, rows-only output included. A   *)
(* column SetColumnAlignment was given no entry for falls back to the       *)
(* alignment the table was constructed with.                                *)
C4_AlignmentEveryColumn ==
    (last.rendered /\ last.drew = "table") =>
        LET widths == {Len(last.headers)} \cup {Len(last.rows[i]) : i \in DOMAIN last.rows}
            columns == {i \in 0..Len(Labels) : \E w \in widths : i < w}
            aligned(i) == IF i + 1 \in DOMAIN table.columnsAlign
                          THEN table.columnsAlign[i + 1]
                          ELSE table.align
        IN  \A i \in columns :
                aligned(i) = IF i \in PositionSet(last.nums)
                             THEN p.NumbersAlignment
                             ELSE p.DefaultAlignment

C6_PrintHeadList ==
    [][ last'.op = "PrintHeadList" =>
           LET items == inp.list.items
               cell(x) == IF x.kind = "int" THEN ToString(x.n) ELSE x.s
           IN  IF inp.list.kind # "slice"
               THEN /\ last'.ret = 0
                    /\ ~last'.rendered
                    /\ table' = table
                    /\ newWriterCalls' = newWriterCalls
               ELSE /\ last'.rendered
                    /\ last'.reset
                    /\ last'.headers = <<inp.header>>
                    /\ Len(last'.rows) = Len(items)
                    /\ \A i \in 1..Len(items) : last'.rows[i] = <<cell(items[i])>>
                    /\ table'.lines = last'.rows ]_vars

C6_Witness ==
    /\ last.op = "PrintHeadList"
    /\ last.rendered
    /\ inp.list.ptr
    /\ inp.filters # <<>>
    /\ last.rows = <<<<"x">>, <<"7">>>>
    /\ last.headers = <<"Item">>

(* C7: in Print and PrintJSON an element is visible iff no predicate        *)
(* accepts its shape or the first predicate, in registration order, that    *)
(* accepts its shape answers true; the rows are those of the visible        *)
(* elements in input order.                                                 *)
C7_FilterDispatch ==
    (last.op \in {"Print", "PrintJSON"}) =>
        LET items == IF last.op = "Print" THEN inp.v.items ELSE inp.doc.items
            matching(e) == {k \in DOMAIN inp.filters : inp.filters[k].shape = e.shape}
            first(S) == CHOOSE k \in S : \A j \in S : k <= j
            visible(e) == \/ matching(e) = {}
                          \/ e.key \in inp.filters[first(matching(e))].accept
            shown == {i \in DOMAIN items : visible(items[i])}
            rank(i) == Cardinality({j \in shown : j <= i})
        IN  /\ Len(last.rows) = Cardinality(shown)
            /\ \A i \in shown : last.rows[rank(i)] = ElementCells(items[i])

C7_Witness ==
    /\ last.op = "Print"
    /\ inp.filters = <<Pred("A", {}), Pred("A", {"a", "b"})>>
    /\ inp.v.items = <<Elem("A", "a", 3), Elem("B", "x", 1)>>
    /\ last.rows = <<<<"x", "#1">>>>

(* C8: the table is nil until the first call that reaches Render or         *)
(* RenderRow, that call constructs it, no second table is ever constructed, *)
(* and the settings copied into it at construction stay as they were then   *)
(* whatever the caller does to the Printer's fields afterwards.             *)
C8_LazyCachedTable ==
    /\ [](/\ newWriterCalls <= 1
          /\ table.isNil <=> newWriterCalls = 0
          /\ table.id = newWriterCalls)
    /\ [][ /\ (last'.rendered \/ last'.op = "RenderRow") => ~table'.isNil
           /\ (table.isNil /\ ~table'.isNil) =>
                 /\ last'.rendered \/ last'.op = "RenderRow"
                 /\ table'.out = p.out
                 /\ table'.hdrLine = p.HeaderLine
                 /\ table'.borders.Top = p.BorderTop
           /\ ~table.isNil =>
                 /\ table'.id = table.id
                 /\ TableSettings(table') = TableSettings(table) ]_vars

C8_Witness ==
    /\ ~table.isNil
    /\ last.rendered
    /\ table.hdrLine # p.HeaderLine
    /\ table.out = "w"

(* C9: a Render that takes the "nothing to display" return leaves the       *)
(* table's headers, rows and column alignment as they were, for either      *)
(* value of reset.                                                          *)
C9_ShortCircuitLeavesTable ==
    [][ (last'.rendered /\ last'.headers = <<>> /\ ~p.AllowRowsOnly /\ ~table.isNil) =>
           /\ table'.headers = table.headers
           /\ table'.lines = table.lines
           /\ table'.columnsAlign = table.columnsAlign ]_vars

(* C10: Render leaves headers[1..] alone, overwrites headers[0] in the      *)
(* caller's slice exactly when the policy holds, and after any number of    *)
(* Render calls on the same slice for which the policy held the first label *)
(* set on the table carries exactly one " (N) " suffix.                     *)
C10_OneSuffix ==
    (last.op = "Render" /\ last.headers # <<>>) =>
        LET n == Len(last.rows)
            holds == ~p.RowLengthTitle.nil /\ p.RowLengthTitle.gt < n
        IN  /\ \A i \in 2..Len(last.headers) : hdr[i] = last.headers[i]
            /\ (hdr[1] # last.headers[1]) <=> holds
            /\ holds => table.headers[1] = WithCount(hdrOrig[1], n)

====
